---- MODULE Spec2Model ----
(***************************************************************************)
(* Verification model of the Collatz worker pools of dcp/2024-10-28/python *)
(*                                                                         *)
(*   claude_asyncio.py                 ("plain" pool, remote backend)      *)
(*   claude_asyncio_w_worker_stats.py  ("stats" pool, remote backend)      *)
(*   async_collatz.py                  ("batch" pool, local seq)           *)
(*   collatz.py / claude_flask.py      (the Collatz recurrence)            *)
(*                                                                         *)
(* asyncio runs the coroutines on one thread: a coroutine runs from one    *)
(* suspension point (await) to the next without interruption.  Every       *)
(* action below is one such stretch of one coroutine, or a part of it;     *)
(* splitting a stretch only adds interleavings.                            *)
(***************************************************************************)
EXTENDS Integers, Sequences, FiniteSets, TLC

(* ------------------------------ bounds -------------------------------- *)

\* largest max_number given to process_numbers
MaxNumber == 3
\* largest num_workers given to process_numbers
MaxWorkers == 2
\* length of the range async_collatz.main cuts into batches (1_000_000 there)
BatchNumbers == 5
\* batch length of async_collatz.main (step = 1_000 there)
BatchStep == 2
\* largest argument given to seq / calculate_collatz
MaxSeqInput == 30
\* range of the runs that are compared with each other
TieMaxNumber == 15
\* the recurrence is stepped until its list has this many elements
MaxSeqLen == 120
\* largest size given to longest_collatz
MaxSize == 20
\* longest result sink given to max()
MaxSinkLen == 3
\* the wide numbers given to both backends are 2^WideExponent + d,
\* d in 0 .. WideSpread
WideExponent == 54
WideSpread == 3
\* longest text of the query parameter "number"
MaxParamLen == 3

(* ------------------------- program constants -------------------------- *)

\* the poison pill: the queue entry None; no work item has this value
None == 0
\* async_collatz.main starts three workers
BatchWorkers == 3
\* results[-1] / 2 is a float: 53 bits of mantissa
DoubleMantissa == 53
\* sys.int_info.default_max_str_digits: int(text) and the conversion of an
\* int to text raise ValueError beyond this many digits
int_max_str_digits == 4300

(* ------------------------------ helpers ------------------------------- *)

Last(s) == s[Len(s)]

\* s[:k] and s[k:] of a Python list
Take(s, k) == SubSeq(s, 1, IF k < Len(s) THEN k ELSE Len(s))
Drop(s, k) == SubSeq(s, (IF k < Len(s) THEN k ELSE Len(s)) + 1, Len(s))

\* list(range(1, n + 1))
Range1(n) == [i \in 1..n |-> i]

RECURSIVE SumOver(_, _)
SumOver(f, S) ==
    IF S = {} THEN 0
    ELSE LET x == CHOOSE y \in S : TRUE IN f[x] + SumOver(f, S \ {x})

(* ----------------------- the Collatz recurrence ----------------------- *)

\* int(x / 2): true division, then truncation.  Exact for every integer of
\* magnitude below 2^53, which covers every value the model reaches.
IntTrueDiv2(x) == IF x >= 0 THEN x \div 2 ELSE -((-x) \div 2)

\* one iteration of the while loop of seq (collatz.py, async_collatz.py)
seq_step_shortcut(results) ==
    IF Last(results) % 2 = 0
    THEN Append(results, IntTrueDiv2(Last(results)))
    ELSE Append(results, IntTrueDiv2(3 * Last(results) + 1))
seq_step(results) ==
    IF Last(results) % 2 = 0
    THEN Append(results, IntTrueDiv2(Last(results)))
    ELSE Append(results, 3 * Last(results) + 1)

\* one iteration of the while loop of calculate_collatz (claude_flask.py):
\* the new value of current
calculate_collatz_step(current) ==
    IF current % 2 = 0 THEN current \div 2 ELSE 3 * current + 1

RECURSIVE calculate_collatz_loop(_, _)
calculate_collatz_loop(sequence, current) ==
    IF current = 1 THEN sequence
    ELSE LET next == calculate_collatz_step(current)
         IN  calculate_collatz_loop(Append(sequence, next), next)

calculate_collatz(n) ==
    IF n <= 0 THEN <<>> ELSE calculate_collatz_loop(<<n>>, n)

RECURSIVE seq_loop(_)
seq_loop(results) ==
    IF Last(results) = 1 THEN results ELSE seq_loop(seq_step(results))

\* seq(n), for the arguments on which its loop ends
seq(n) == seq_loop(<<n>>)

(* --------------------------- remote backend --------------------------- *)

\* In async_collatz.py the backend is the coroutine seq: "ok" when it returns
\* its list, "raises" when an exception comes out of `await seq(n)`.
\* What one GET /collatz can come to, seen from get_collatz_sequence:
\*   ok          200, {"number": n, "sequence": [...]}
\*   http_error  a status raise_for_status() rejects
\*   bad_json    a body response.json() cannot decode
\*   no_sequence a JSON object without the key "sequence"
\*   not_sized   a JSON object whose "sequence" has no len() (a number, null)
Outcome == {"ok", "http_error", "bad_json", "no_sequence", "not_sized"}

\* the outcomes on which session.get / raise_for_status / json / data[..] raise
RequestRaises == {"http_error", "bad_json", "no_sequence"}

\* the answers the service b can give to the request for n: the one that is
\* settled, or any when none is
Answers(b, n) == IF b[n] = "pending" THEN Outcome ELSE {b[n]}

(* ------------------------------- state -------------------------------- *)

VARIABLES
    variant,          \* which script runs: "plain", "stats", "batch", "seq"
    max_number,       \* process_numbers argument (length of the range in batch)
    num_workers,      \* process_numbers argument (3 in batch)
    backend,          \* item -> Outcome ("pending": not settled yet)
    main_pc,          \* where process_numbers / main stands
    next_put,         \* loop variable of the two filling loops
    remaining,        \* async_collatz.main: numbers still to cut into batches
    queue,            \* asyncio.Queue: the entries not yet dequeued
    unfinished_tasks, \* asyncio.Queue: puts not yet matched by task_done
    pc,               \* worker -> where the worker coroutine stands
    number,           \* worker -> its local `number` (`numbers` in batch)
    cancel_requested, \* worker -> task.cancel() was called on it
    results,          \* the result sink (list of CollatzResult)
    worker_stats,     \* worker -> WorkerStats, for the workers that registered
    ret,              \* what process_numbers returned, <<>> before
    exc,              \* the exception process_numbers raised, "" if none
    report,           \* what main printed last: "", "results", "error"
    claim_count,      \* history: entry -> times it was dequeued
    done_calls,       \* history: entry -> task_done calls made while handling it
    reported,         \* history: entry -> error lines printed for it
    pills_put,        \* history: poison pills enqueued
    pills_taken,      \* history: worker -> poison pills dequeued
    run,              \* 1, or 2 in the second of two compared runs
    first_run,        \* outcome of the first of two compared runs
    seq_fn,           \* which recurrence is stepped: "seq", "calculate_collatz"
    seq_n,            \* its argument
    seq_results,      \* its list (results / sequence)
    seq_current,      \* calculate_collatz: its local current
    seq_pc,           \* "idle", "loop", "returned"
    lc_fn,            \* which reduction runs: "longest_collatz", "max"
    lc_size,          \* longest_collatz: its argument
    lc_n,             \* longest_collatz: its loop variable
    lc_result,        \* longest_collatz: its local result (a Result)
    lc_sink,          \* max: the list it is applied to
    lc_ret,           \* max: what the end of process_numbers returned
    lc_exc,           \* max: the exception raised, "" if none
    lc_pc,            \* "idle", "loop", "returned", "raised"
    wide_n,           \* a number beyond 2^31, as its bits; both backends get it
    wide_results,     \* seq: its list
    wide_sequence,    \* calculate_collatz: its list
    wide_current,     \* calculate_collatz: its local current
    wide_artifact,    \* what get_collatz_sequence read from the answer
    wide_pc,          \* "idle", "local", "request", "remote", "respond", "done"
    h_args,           \* GET /collatz: the query parameter "number"
    h_resp,           \* GET /collatz: the answer
    h_current,        \* GET /collatz: calculate_collatz's local current
    h_calls,          \* history: the arguments calculate_collatz was called with
    h_pc              \* "idle", "calculate", "calculate_wide", "done"

vars == <<variant, max_number, num_workers, backend, main_pc, next_put,
          remaining, queue, unfinished_tasks, pc, number, cancel_requested,
          results, worker_stats, ret, exc, report, claim_count, done_calls,
          reported, pills_put, pills_taken, run, first_run,
          seq_fn, seq_n, seq_results, seq_current, seq_pc,
          lc_fn, lc_size, lc_n, lc_result, lc_sink, lc_ret, lc_exc, lc_pc,
          wide_n, wide_results, wide_sequence, wide_current, wide_artifact,
          wide_pc, h_args, h_resp, h_current, h_calls, h_pc>>

poolVars == <<variant, max_number, num_workers, backend, main_pc, next_put,
              remaining, queue, unfinished_tasks, pc, number, cancel_requested,
              results, worker_stats, ret, exc, report, claim_count, done_calls,
              reported, pills_put, pills_taken, run, first_run>>

\* the variables of each function that is stepped on its own
seqOwnVars == <<seq_fn, seq_n, seq_results, seq_current, seq_pc>>
argmaxVars == <<lc_fn, lc_size, lc_n, lc_result, lc_sink, lc_ret, lc_exc,
                lc_pc>>
wideVars == <<wide_n, wide_results, wide_sequence, wide_current,
              wide_artifact, wide_pc>>
handlerVars == <<h_args, h_resp, h_current, h_calls, h_pc>>

\* what the recurrence leaves alone besides the pool
otherFnVars == <<argmaxVars, wideVars, handlerVars>>

\* what the pool leaves alone
seqVars == <<seqOwnVars, otherFnVars>>

\* range(num_workers)
Workers == 0 .. (num_workers - 1)

\* range(1, max_number + 1)
Items == 1 .. max_number


\* the queue entries async_collatz.main puts: the range cut into batches
Batches ==
    { Take(Drop(Range1(BatchNumbers), k * BatchStep), BatchStep) :
        k \in 0 .. ((BatchNumbers + BatchStep - 1) \div BatchStep) - 1 }

\* every entry the run of this variant puts into the queue
Entries == IF variant = "batch" THEN Batches ELSE Items \cup {None}

\* the entries that are work: the numbers, or the batches
WorkEntries == IF variant = "batch" THEN Batches ELSE Items

\* WorkerStats.__init__ (processing_time, a wall-clock sum, is left out)
WorkerStatsInit ==
    [numbers_processed |-> 0, total_sequence_length |-> 0,
     longest_sequence |-> 0, number_with_longest |-> 0]

(* --------------------------- asyncio.Queue ---------------------------- *)

\* queue.task_done() on a queue with u unfinished tasks: it raises ValueError
\* when there is nothing left to mark, else it counts one task down
task_done(u) ==
    IF u <= 0 THEN [raised |-> TRUE, unfinished |-> u]
    ELSE [raised |-> FALSE, unfinished |-> u - 1]

\* await queue.get() on a non-empty queue: the oldest entry, removed
dequeue_peek(q) == [entry |-> Head(q), rest |-> q]
dequeue_newest(q) == [entry |-> Last(q), rest |-> SubSeq(q, 1, Len(q) - 1)]
dequeue(q) == [entry |-> Head(q), rest |-> Tail(q)]

\* await queue.join() goes on when no put is left unmatched by task_done
join_returns_early(u) == u <= 1
join_returns(u) == u = 0

\* the number of poison pills process_numbers puts: range(num_workers)
pill_count_one_short(n) == n - 1
pill_count(n) == n

(* ------------------------------ Init ---------------------------------- *)

\* the state shared by the start of every run of a pool
PoolStart ==
    /\ next_put = 1
    /\ queue = <<>>
    /\ unfinished_tasks = 0
    /\ pc = [w \in Workers |-> "none"]
    /\ number = [w \in Workers |-> IF variant = "batch" THEN <<>> ELSE None]
    /\ cancel_requested = [w \in Workers |-> FALSE]
    /\ results = <<>>
    /\ worker_stats = <<>>
    /\ ret = <<>>
    /\ exc = ""
    /\ report = ""
    /\ claim_count = [e \in Entries |-> 0]
    /\ done_calls = [e \in Entries |-> 0]
    /\ reported = [e \in Entries |-> 0]
    /\ pills_put = 0
    /\ pills_taken = [w \in Workers |-> 0]

\* no reduction is stepped on its own
ArgmaxIdle ==
    /\ lc_fn = "max"
    /\ lc_size = 0
    /\ lc_n = 0
    /\ lc_result = [num |-> 0, seq |-> <<>>]
    /\ lc_sink = <<>>
    /\ lc_ret = <<>>
    /\ lc_exc = ""
    /\ lc_pc = "idle"

\* no number is sent to both backends
WideIdle ==
    /\ wide_n = <<>>
    /\ wide_results = <<>>
    /\ wide_sequence = <<>>
    /\ wide_current = <<>>
    /\ wide_artifact = <<>>
    /\ wide_pc = "idle"

\* no request is made of the service
HandlerIdle ==
    /\ h_args = [present |-> FALSE, text |-> <<>>]
    /\ h_resp = [status |-> 0, error |-> "", number |-> 0, sequence |-> <<>>]
    /\ h_current = 0
    /\ h_calls = <<>>
    /\ h_pc = "idle"

\* no function but the recurrence is stepped on its own
OtherFnIdle == ArgmaxIdle /\ WideIdle /\ HandlerIdle

\* no function is stepped on its own
SeqIdle ==
    /\ seq_fn = "seq"
    /\ seq_n = 1
    /\ seq_results = <<>>
    /\ seq_current = 0
    /\ seq_pc = "idle"
    /\ OtherFnIdle

\* process_numbers(max_number, num_workers) of either remote pool, against
\* a service whose answers are one of `services`, or async_collatz.main
InitWith(services) ==
    /\ variant \in {"plain", "stats", "batch"}
    /\ IF variant = "batch"
       THEN /\ max_number = BatchNumbers
            /\ num_workers = BatchWorkers
            /\ backend = [n \in Items |-> "ok"]
       ELSE /\ max_number \in 0 .. MaxNumber
            /\ num_workers \in 1 .. MaxWorkers
            /\ backend \in services[max_number]
    /\ remaining = IF variant = "batch" THEN Range1(max_number) ELSE <<>>
    /\ main_pc = "fill"
    /\ PoolStart
    /\ run = 1
    /\ first_run = <<>>
    /\ SeqIdle

\* the service's answer to every number is settled before the run
Init == InitWith([m \in 0 .. MaxNumber |-> [1 .. m -> Outcome]])

(* ------------------- process_numbers: filling the queue --------------- *)

\* for num in range(1, max_number + 1): await queue.put(num)
PutNumber ==
    /\ variant \in {"plain", "stats"}
    /\ main_pc = "fill"
    /\ IF next_put <= max_number
       THEN /\ queue' = Append(queue, next_put)
            /\ unfinished_tasks' = unfinished_tasks + 1
            /\ next_put' = next_put + 1
            /\ UNCHANGED main_pc
       ELSE /\ main_pc' = "pills"
            /\ next_put' = 0
            /\ UNCHANGED <<queue, unfinished_tasks>>
    /\ UNCHANGED <<variant, max_number, num_workers, backend, remaining, pc,
                   number, cancel_requested, results, worker_stats, ret, exc,
                   report, claim_count, done_calls, reported, pills_put,
                   pills_taken, run, first_run, seqVars>>

\* for _ in range(num_workers): await queue.put(None)
PutPill ==
    /\ variant \in {"plain", "stats"}
    /\ main_pc = "pills"
    /\ IF next_put < pill_count(num_workers)
       THEN /\ queue' = Append(queue, None)
            /\ unfinished_tasks' = unfinished_tasks + 1
            /\ next_put' = next_put + 1
            /\ pills_put' = pills_put + 1
            /\ UNCHANGED main_pc
       ELSE /\ main_pc' = "create"
            /\ UNCHANGED <<queue, unfinished_tasks, next_put, pills_put>>
    /\ UNCHANGED <<variant, max_number, num_workers, backend, remaining, pc,
                   number, cancel_requested, results, worker_stats, ret, exc,
                   report, claim_count, done_calls, reported,
                   pills_taken, run, first_run, seqVars>>

\* async_collatz.main: while numbers: queue.put_nowait(numbers[:step]);
\* numbers = numbers[step:]
BatchPut ==
    /\ variant = "batch"
    /\ main_pc = "fill"
    /\ IF remaining # <<>>
       THEN /\ queue' = Append(queue, Take(remaining, BatchStep))
            /\ unfinished_tasks' = unfinished_tasks + 1
            /\ remaining' = Drop(remaining, BatchStep)
            /\ UNCHANGED main_pc
       ELSE /\ main_pc' = "create"
            /\ UNCHANGED <<queue, unfinished_tasks, remaining>>
    /\ UNCHANGED <<variant, max_number, num_workers, backend, next_put, pc,
                   number, cancel_requested, results, worker_stats, ret, exc,
                   report, claim_count, done_calls, reported, pills_put,
                   pills_taken, run, first_run, seqVars>>

\* workers = [asyncio.create_task(worker(i, ...)) for i in range(num_workers)]
\* and main goes on to await queue.join()
CreateWorkers ==
    /\ main_pc = "create"
    /\ pc' = [w \in Workers |-> "start"]
    /\ main_pc' = "join"
    /\ UNCHANGED <<variant, max_number, num_workers, backend, next_put,
                   remaining, queue, unfinished_tasks, number, cancel_requested,
                   results, worker_stats, ret, exc, report, claim_count,
                   done_calls, reported, pills_put, pills_taken, run,
                   first_run, seqVars>>

\* main is suspended in queue.join() or in gather: the workers can run
MainSuspended == main_pc \in {"join", "gather"}


(* ------------------------------ worker -------------------------------- *)

\* except Exception as e: print(...); queue.task_done()
\* on a queue with u unfinished tasks.  escaped: task_done raised in the
\* handler, so the exception leaves the worker.
except_handler_forgets_task_done(u) ==
    [printed |-> 1, calls |-> 0, unfinished |-> u, escaped |-> FALSE]
except_handler(u) ==
    LET t == task_done(u)
    IN  [printed |-> 1, calls |-> 1, unfinished |-> t.unfinished,
         escaped |-> t.raised]

\* the try body after a number was dequeued, in claude_asyncio.py:
\*   result = await get_collatz_sequence(number, session)   (len() is in there)
\*   results.append(result); progress.update(1); queue.task_done()
\* o is the service's answer, u the queue's unfinished tasks
try_number_plain(n, o, u) ==
    IF o # "ok"
    THEN [raised |-> TRUE, append |-> <<>>, calls |-> 0, unfinished |-> u]
    ELSE LET sequence == calculate_collatz(n)
             t == task_done(u)
         IN  [raised |-> t.raised,
              append |-> <<[number |-> n, sequence |-> sequence,
                            sequence_length |-> Len(sequence)]>>,
              calls |-> 1, unfinished |-> t.unfinished]

\* the try body after a number was dequeued, in
\* claude_asyncio_w_worker_stats.py:
\*   sequence = await get_collatz_sequence(number, session, base_url)
\*   worker_stat.numbers_processed += 1
\*   worker_stat.total_sequence_length += len(sequence)
\*   if len(sequence) > worker_stat.longest_sequence: ...
\*   results.append(CollatzResult(...)); progress.update(1); queue.task_done()
\* st is the worker's WorkerStats
try_number_stats(w, n, o, st, u) ==
    IF o \in RequestRaises
    THEN [raised |-> TRUE, stat |-> st, append |-> <<>>, calls |-> 0,
          unfinished |-> u]
    ELSE LET st1 == [st EXCEPT !.numbers_processed = @ + 1]
         IN  IF o = "not_sized"
             THEN \* len(sequence) raises TypeError
                  [raised |-> TRUE, stat |-> st1, append |-> <<>>,
                   calls |-> 0, unfinished |-> u]
             ELSE LET sequence == calculate_collatz(n)
                      st2 == [st1 EXCEPT !.total_sequence_length =
                                             @ + Len(sequence)]
                      st3 == IF Len(sequence) > st2.longest_sequence
                             THEN [st2 EXCEPT
                                     !.longest_sequence = Len(sequence),
                                     !.number_with_longest = n]
                             ELSE st2
                      t == task_done(u)
                  IN  [raised |-> t.raised, stat |-> st3,
                       append |-> <<[number |-> n, sequence |-> sequence,
                                     sequence_length |-> Len(sequence),
                                     worker_id |-> w]>>,
                       calls |-> 1, unfinished |-> t.unfinished]

\* worker_stat = WorkerStats(); stats[name] = worker_stat
register_afresh(stats, name) ==
    [w \in DOMAIN stats \cup {name} |-> WorkerStatsInit]
register(stats, name) == (name :> WorkerStatsInit) @@ stats

\* the first stretch of a worker task: in the stats pool
\*   worker_stat = WorkerStats(); stats[name] = worker_stat
\* and then the loop is entered
WorkerStart(w) ==
    /\ MainSuspended
    /\ pc[w] = "start"
    /\ ~cancel_requested[w]
    /\ pc' = [pc EXCEPT ![w] = "get"]
    /\ worker_stats' = IF variant = "stats"
                       THEN register(worker_stats, w)
                       ELSE worker_stats
    /\ UNCHANGED <<variant, max_number, num_workers, backend, main_pc,
                   next_put, remaining, queue, unfinished_tasks, number,
                   cancel_requested, results, ret, exc, report, claim_count,
                   done_calls, reported, pills_put, pills_taken, run,
                   first_run, seqVars>>

\* number = await queue.get()
\* if number is None: queue.task_done(); break
\* else the request for the number is sent and the worker awaits the answer
Get(w) ==
    /\ variant \in {"plain", "stats"}
    /\ MainSuspended
    /\ pc[w] = "get"
    /\ queue # <<>>
    /\ LET entry == dequeue(queue).entry
           t == task_done(unfinished_tasks)
           h == IF t.raised THEN except_handler(t.unfinished)
                ELSE [printed |-> 0, calls |-> 0, unfinished |-> t.unfinished,
                      escaped |-> FALSE]
       IN  /\ queue' = dequeue(queue).rest
           /\ number' = [number EXCEPT ![w] = entry]
           /\ claim_count' = [claim_count EXCEPT ![entry] = @ + 1]
           /\ IF entry = None
              THEN /\ pills_taken' = [pills_taken EXCEPT ![w] = @ + 1]
                   /\ unfinished_tasks' = h.unfinished
                   /\ done_calls' = [done_calls EXCEPT ![entry] =
                                         @ + 1 + h.calls]
                   /\ reported' = [reported EXCEPT ![entry] = @ + h.printed]
                   /\ pc' = [pc EXCEPT ![w] =
                               IF h.escaped THEN "crashed"
                               ELSE IF t.raised THEN "get" ELSE "done"]
              ELSE /\ pc' = [pc EXCEPT ![w] = "call"]
                   /\ UNCHANGED <<pills_taken, unfinished_tasks, done_calls,
                                  reported>>
    /\ UNCHANGED <<variant, max_number, num_workers, backend, main_pc,
                   next_put, remaining, cancel_requested, results,
                   worker_stats, ret, exc, report, pills_put, run,
                   first_run, seqVars>>

\* the answer to the worker's request arrives: the rest of the try body, and
\* the except branch when the body raised; then the loop goes round
Response(w) ==
    /\ variant \in {"plain", "stats"}
    /\ MainSuspended
    /\ pc[w] = "call"
    /\ \E o \in Answers(backend, number[w]) :
       LET n == number[w]
           b == IF variant = "plain"
                THEN try_number_plain(n, o, unfinished_tasks)
                ELSE try_number_stats(w, n, o, worker_stats[w],
                                      unfinished_tasks)
           h == IF b.raised THEN except_handler(b.unfinished)
                ELSE [printed |-> 0, calls |-> 0, unfinished |-> b.unfinished,
                      escaped |-> FALSE]
       IN  /\ results' = results \o b.append
           /\ worker_stats' = IF variant = "stats"
                              THEN [worker_stats EXCEPT ![w] = b.stat]
                              ELSE worker_stats
           /\ unfinished_tasks' = h.unfinished
           /\ done_calls' = [done_calls EXCEPT ![n] = @ + b.calls + h.calls]
           /\ reported' = [reported EXCEPT ![n] = @ + h.printed]
           /\ pc' = [pc EXCEPT ![w] = IF h.escaped THEN "crashed" ELSE "get"]
           /\ backend' = [backend EXCEPT ![n] = o]
    /\ UNCHANGED <<variant, max_number, num_workers, main_pc,
                   next_put, remaining, queue, number, cancel_requested, ret,
                   exc, report, claim_count, pills_put, pills_taken, run,
                   first_run, seqVars>>

(* ------------------------ async_collatz.worker ------------------------ *)

\* numbers = await queue.get()
BatchGet(w) ==
    /\ variant = "batch"
    /\ MainSuspended
    /\ pc[w] = "get"
    /\ ~cancel_requested[w]
    /\ queue # <<>>
    /\ queue' = dequeue(queue).rest
    /\ number' = [number EXCEPT ![w] = dequeue(queue).entry]
    /\ claim_count' = [claim_count EXCEPT ![dequeue(queue).entry] = @ + 1]
    /\ pc' = [pc EXCEPT ![w] = "call"]
    /\ UNCHANGED <<variant, max_number, num_workers, backend, main_pc,
                   next_put, remaining, unfinished_tasks, cancel_requested,
                   results, worker_stats, ret, exc, report, done_calls,
                   reported, pills_put, pills_taken, run, first_run, seqVars>>

\* for n in numbers: s = await seq(n)
\* queue.task_done()
\* seq ends on every n >= 1 of the range; there is no try: an exception of
\* seq, or a ValueError of task_done, leaves the worker, and an exception of
\* seq leaves it before task_done is reached
BatchProcess(w) ==
    /\ variant = "batch"
    /\ MainSuspended
    /\ pc[w] = "call"
    /\ \A i \in 1 .. Len(number[w]) : Last(seq(number[w][i])) = 1
    /\ IF \E i \in 1 .. Len(number[w]) : backend[number[w][i]] # "ok"
       THEN /\ pc' = [pc EXCEPT ![w] = "crashed"]
            /\ UNCHANGED <<unfinished_tasks, done_calls>>
       ELSE LET t == task_done(unfinished_tasks)
            IN  /\ unfinished_tasks' = t.unfinished
                /\ done_calls' = [done_calls EXCEPT ![number[w]] = @ + 1]
                /\ pc' = [pc EXCEPT ![w] =
                            IF t.raised THEN "crashed" ELSE "get"]
    /\ UNCHANGED <<variant, max_number, num_workers, backend, main_pc,
                   next_put, remaining, queue, number, cancel_requested,
                   results, worker_stats, ret, exc, report, claim_count,
                   reported, pills_put, pills_taken, run, first_run, seqVars>>

\* a cancelled task gets CancelledError at the await it is suspended in
\* (or before its first stretch) and ends
Cancelled(w) ==
    /\ variant = "batch"
    /\ main_pc = "gather"
    /\ cancel_requested[w]
    /\ pc[w] \in {"start", "get"}
    /\ pc' = [pc EXCEPT ![w] = "cancelled"]
    /\ UNCHANGED <<variant, max_number, num_workers, backend, main_pc,
                   next_put, remaining, queue, unfinished_tasks, number,
                   cancel_requested, results, worker_stats, ret, exc, report,
                   claim_count, done_calls, reported, pills_put, pills_taken,
                   run, first_run, seqVars>>


(* ------------------- process_numbers / main: the drain ---------------- *)

\* await queue.join() returns once no put is left unmatched by task_done.
\* main is woken by the task_done that marks the last entry; the event loop
\* runs what is ready in the order it became ready, and the first stretch of
\* every worker task has been ready since create_task, so it runs before
\* main goes on
JoinReturn ==
    /\ main_pc = "join"
    /\ join_returns(unfinished_tasks)
    /\ \A w \in Workers : pc[w] # "start"
    /\ main_pc' = IF variant = "batch" THEN "cancel" ELSE "gather"
    /\ UNCHANGED <<variant, max_number, num_workers, backend, next_put,
                   remaining, queue, unfinished_tasks, pc, number,
                   cancel_requested, results, worker_stats, ret, exc, report,
                   claim_count, done_calls, reported, pills_put, pills_taken,
                   run, first_run, seqVars>>

\* async_collatz.main: for task in tasks: task.cancel()
\* and main goes on to await asyncio.gather(*tasks, return_exceptions=True)
Cancel ==
    /\ variant = "batch"
    /\ main_pc = "cancel"
    /\ cancel_requested' = [w \in Workers |-> TRUE]
    /\ main_pc' = "gather"
    /\ UNCHANGED <<variant, max_number, num_workers, backend, next_put,
                   remaining, queue, unfinished_tasks, pc, number, results,
                   worker_stats, ret, exc, report, claim_count, done_calls,
                   reported, pills_put, pills_taken, run, first_run, seqVars>>

\* await asyncio.gather(*workers): it returns when every worker task has
\* ended, and raises as soon as one of them ended with an exception
GatherReturn ==
    /\ variant \in {"plain", "stats"}
    /\ main_pc = "gather"
    /\ IF \E w \in Workers : pc[w] = "crashed"
       THEN /\ exc' = "ValueError"
            /\ main_pc' = "raised"
       ELSE /\ \A w \in Workers : pc[w] = "done"
            /\ main_pc' = "reduce"
            /\ UNCHANGED exc
    /\ UNCHANGED <<variant, max_number, num_workers, backend, next_put,
                   remaining, queue, unfinished_tasks, pc, number,
                   cancel_requested, results, worker_stats, ret, report,
                   claim_count, done_calls, reported, pills_put, pills_taken,
                   run, first_run, seqVars>>

\* await asyncio.gather(*tasks, return_exceptions=True), and main returns
BatchGatherReturn ==
    /\ variant = "batch"
    /\ main_pc = "gather"
    /\ \A w \in Workers : pc[w] \in {"cancelled", "crashed"}
    /\ main_pc' = "exit"
    /\ UNCHANGED <<variant, max_number, num_workers, backend, next_put,
                   remaining, queue, unfinished_tasks, pc, number,
                   cancel_requested, results, worker_stats, ret, exc, report,
                   claim_count, done_calls, reported, pills_put, pills_taken,
                   run, first_run, seqVars>>

\* max(rs, key=lambda x: x.sequence_length) of a non-empty list: the scan
\* keeps the first element no later element exceeds
RECURSIVE max_scan(_, _, _)
max_scan(rs, i, best) ==
    IF i > Len(rs) THEN best
    ELSE max_scan(rs, i + 1,
                  IF rs[i].sequence_length > best.sequence_length
                  THEN rs[i] ELSE best)

max_by_sequence_length(rs) == max_scan(rs, 2, rs[1])

\* the end of process_numbers on the sink rs:
\*   longest_result = max(results, key=lambda x: x.sequence_length)
\*   return longest_result.number, longest_result.sequence
\* max() of an empty list raises ValueError
reduce_with_default(rs) ==
    IF rs = <<>> THEN [exc |-> "", ret |-> <<0, <<>>>>]
    ELSE LET longest_result == max_by_sequence_length(rs)
         IN  [exc |-> "",
              ret |-> <<longest_result.number, longest_result.sequence>>]
reduce(rs) ==
    IF rs = <<>> THEN [exc |-> "ValueError", ret |-> <<>>]
    ELSE LET longest_result == max_by_sequence_length(rs)
         IN  [exc |-> "",
              ret |-> <<longest_result.number, longest_result.sequence>>]

\* the session is closed, progress.close(), and process_numbers ends
Reduce ==
    /\ variant \in {"plain", "stats"}
    /\ main_pc = "reduce"
    /\ exc' = reduce(results).exc
    /\ ret' = reduce(results).ret
    /\ main_pc' = IF reduce(results).exc # "" THEN "raised" ELSE "returned"
    /\ UNCHANGED <<variant, max_number, num_workers, backend, next_put,
                   remaining, queue, unfinished_tasks, pc, number,
                   cancel_requested, results, worker_stats, report,
                   claim_count, done_calls, reported, pills_put, pills_taken,
                   run, first_run, seqVars>>

\* print_worker_stats(stats): it reads every record, adds up
\* numbers_processed, and divides the total time by that sum, which raises
\* ZeroDivisionError when the sum is 0; it writes to no record
print_worker_stats(stats) ==
    LET total_numbers ==
            SumOver([w \in DOMAIN stats |-> stats[w].numbers_processed],
                    DOMAIN stats)
    IN  [total_numbers |-> total_numbers, raised |-> total_numbers = 0]

\* main: the result is printed, and in the stats pool
\* print_worker_stats(worker_stats) is called; or
\* except Exception as e: print(f"\nAn error occurred: {e}")
MainReport ==
    /\ variant \in {"plain", "stats"}
    /\ main_pc \in {"returned", "raised"}
    /\ report' = IF main_pc = "raised" THEN "error"
                 ELSE IF variant = "stats"
                         /\ print_worker_stats(worker_stats).raised
                      THEN "error" ELSE "results"
    /\ main_pc' = "exit"
    /\ UNCHANGED <<variant, max_number, num_workers, backend, next_put,
                   remaining, queue, unfinished_tasks, pc, number,
                   cancel_requested, results, worker_stats, ret, exc,
                   claim_count, done_calls, reported, pills_put, pills_taken,
                   run, first_run, seqVars>>

(* --------------------------- specification ---------------------------- *)

Next ==
    \/ PutNumber
    \/ PutPill
    \/ BatchPut
    \/ CreateWorkers
    \/ \E w \in Workers : WorkerStart(w)
    \/ \E w \in Workers : Get(w)
    \/ \E w \in Workers : Response(w)
    \/ \E w \in Workers : BatchGet(w)
    \/ \E w \in Workers : BatchProcess(w)
    \/ \E w \in Workers : Cancelled(w)
    \/ JoinReturn
    \/ Cancel
    \/ GatherReturn
    \/ BatchGatherReturn
    \/ Reduce
    \/ MainReport

Spec == Init /\ [][Next]_vars


\* as Init, but in async_collatz.py the call of seq may raise for any of
\* the numbers
InitFaulty ==
    /\ variant \in {"plain", "stats", "batch"}
    /\ IF variant = "batch"
       THEN /\ max_number = BatchNumbers
            /\ num_workers = BatchWorkers
            /\ backend \in [Items -> {"ok", "raises"}]
       ELSE /\ max_number \in 0 .. MaxNumber
            /\ num_workers \in 1 .. MaxWorkers
            /\ backend \in [Items -> Outcome]
    /\ remaining = IF variant = "batch" THEN Range1(max_number) ELSE <<>>
    /\ main_pc = "fill"
    /\ PoolStart
    /\ run = 1
    /\ first_run = <<>>
    /\ SeqIdle

SpecFaulty == InitFaulty /\ [][Next]_vars

(* ----------------- two runs of process_numbers compared --------------- *)

\* what a run of process_numbers came to
RunOutcome ==
    [num_workers |-> num_workers, ret |-> ret, exc |-> exc,
     processed |-> Len(results), failed |-> SumOver(reported, Items)]

\* the service of the compared runs: it answers every number of the range
\* but 9, so that 14 and 15 have the longest sequences (18 elements both)
TieBackend ==
    [n \in 1 .. TieMaxNumber |-> IF n \in {9} THEN "http_error" ELSE "ok"]

InitTwoRuns ==
    /\ variant = "plain"
    /\ max_number = TieMaxNumber
    /\ num_workers \in 1 .. MaxWorkers
    /\ backend = TieBackend
    /\ remaining = <<>>
    /\ main_pc = "fill"
    /\ PoolStart
    /\ run = 1
    /\ first_run = <<>>
    /\ SeqIdle

\* process_numbers is called again, on the same range and against the same
\* service, with any number of workers: a fresh queue and a fresh sink
SecondRun ==
    /\ run = 1
    /\ variant \in {"plain", "stats"}
    /\ main_pc \in {"returned", "raised"}
    /\ first_run' = RunOutcome
    /\ run' = 2
    /\ num_workers' \in 1 .. MaxWorkers
    /\ main_pc' = "fill"
    /\ next_put' = 1
    /\ queue' = <<>>
    /\ unfinished_tasks' = 0
    /\ pc' = [w \in 0 .. (num_workers' - 1) |-> "none"]
    /\ number' = [w \in 0 .. (num_workers' - 1) |-> None]
    /\ cancel_requested' = [w \in 0 .. (num_workers' - 1) |-> FALSE]
    /\ results' = <<>>
    /\ worker_stats' = <<>>
    /\ ret' = <<>>
    /\ exc' = ""
    /\ report' = ""
    /\ claim_count' = [e \in Entries |-> 0]
    /\ done_calls' = [e \in Entries |-> 0]
    /\ reported' = [e \in Entries |-> 0]
    /\ pills_put' = 0
    /\ pills_taken' = [w \in 0 .. (num_workers' - 1) |-> 0]
    /\ UNCHANGED <<variant, max_number, backend, remaining, seqVars>>

NextTwoRuns ==
    \/ PutNumber
    \/ PutPill
    \/ CreateWorkers
    \/ \E w \in Workers : WorkerStart(w)
    \/ \E w \in Workers : Get(w)
    \/ \E w \in Workers : Response(w)
    \/ JoinReturn
    \/ GatherReturn
    \/ Reduce
    \/ SecondRun

SpecTwoRuns == InitTwoRuns /\ [][NextTwoRuns]_vars

(* ------------------- the recurrence, stepped on its own --------------- *)

\* no pool runs
PoolIdle ==
    /\ variant = "seq"
    /\ max_number = 0
    /\ num_workers = 0
    /\ backend = <<>>
    /\ remaining = <<>>
    /\ main_pc = "off"
    /\ PoolStart
    /\ run = 1
    /\ first_run = <<>>

\* a call of seq(n) or calculate_collatz(n) is about to be made
InitSeq ==
    /\ PoolIdle
    /\ seq_fn \in {"seq", "calculate_collatz"}
    /\ seq_n \in 1 .. MaxSeqInput
    /\ seq_results = <<>>
    /\ seq_current = 0
    /\ seq_pc = "idle"
    /\ OtherFnIdle

\* seq: results = [n]
\* calculate_collatz: if n <= 0: return []; sequence = [n]; current = n
SeqCall ==
    /\ seq_pc = "idle"
    /\ IF seq_fn = "calculate_collatz" /\ seq_n <= 0
       THEN /\ seq_results' = <<>>
            /\ seq_pc' = "returned"
            /\ UNCHANGED seq_current
       ELSE /\ seq_results' = <<seq_n>>
            /\ seq_current' = IF seq_fn = "calculate_collatz" THEN seq_n
                              ELSE seq_current
            /\ seq_pc' = "loop"
    /\ UNCHANGED <<seq_fn, seq_n, poolVars, otherFnVars>>

\* seq: while results[-1] != 1: the loop body; return results
\* calculate_collatz: while current != 1: the loop body; return sequence
SeqLoop ==
    /\ seq_pc = "loop"
    /\ Len(seq_results) < MaxSeqLen
    /\ IF seq_fn = "seq"
       THEN IF Last(seq_results) # 1
            THEN /\ seq_results' = seq_step(seq_results)
                 /\ UNCHANGED <<seq_current, seq_pc>>
            ELSE /\ seq_pc' = "returned"
                 /\ UNCHANGED <<seq_current, seq_results>>
       ELSE IF seq_current # 1
            THEN /\ seq_current' = calculate_collatz_step(seq_current)
                 /\ seq_results' = Append(seq_results,
                                          calculate_collatz_step(seq_current))
                 /\ UNCHANGED seq_pc
            ELSE /\ seq_pc' = "returned"
                 /\ UNCHANGED <<seq_current, seq_results>>
    /\ UNCHANGED <<seq_fn, seq_n, poolVars, otherFnVars>>

NextSeq == SeqCall \/ SeqLoop

\* a call of seq(n) or calculate_collatz(n) with n <= 0 is about to be made
InitSeqInvalid ==
    /\ PoolIdle
    /\ seq_fn \in {"seq", "calculate_collatz"}
    /\ seq_n \in -MaxSeqInput .. 0
    /\ seq_results = <<>>
    /\ seq_current = 0
    /\ seq_pc = "idle"
    /\ OtherFnIdle

SpecSeqInvalid == InitSeqInvalid /\ [][NextSeq]_vars

\* a called function runs on
SpecSeq == InitSeq /\ [][NextSeq]_vars /\ WF_vars(NextSeq)

\* the service settles its answer to a number when the request is made
InitFair == InitWith([m \in 0 .. MaxNumber |-> {[n \in 1 .. m |-> "pending"]}])

\* the event loop always runs a coroutine that is ready, and every request
\* is answered in the end
FairSpec == InitFair /\ [][Next]_vars /\ WF_vars(Next)

(* ------------------ the reductions, stepped on their own -------------- *)

\* longest_collatz: one iteration of its for loop, on its local result
\*   s = seq(n); if len(s) > len(result.seq): result = Result(n, s)
longest_collatz_step_keeps_last(result, n) ==
    IF Len(seq(n)) >= Len(result.seq)
    THEN [num |-> n, seq |-> seq(n)] ELSE result
longest_collatz_step(result, n) ==
    IF Len(seq(n)) > Len(result.seq)
    THEN [num |-> n, seq |-> seq(n)] ELSE result

\* the CollatzResult get_collatz_sequence returns for n on a 200 answer
CollatzResult(n) ==
    [number |-> n, sequence |-> calculate_collatz(n),
     sequence_length |-> Len(calculate_collatz(n))]

\* the sinks of at most k results: the workers append in any order, each
\* number at most once, and a failed number not at all
Sinks(k) ==
    UNION { { [i \in 1 .. m |-> CollatzResult(f[i])] :
                f \in { g \in [1 .. m -> 1 .. MaxSize] :
                           \A i, j \in 1 .. m : i # j => g[i] # g[j] } } :
            m \in 0 .. k }

\* longest_collatz(size) is about to be called, or the end of
\* process_numbers is about to run on a sink
InitArgmax ==
    /\ PoolIdle
    /\ seq_fn = "seq"
    /\ seq_n = 1
    /\ seq_results = <<>>
    /\ seq_current = 0
    /\ seq_pc = "idle"
    /\ lc_fn \in {"longest_collatz", "max"}
    /\ IF lc_fn = "longest_collatz"
       THEN /\ lc_size \in 0 .. MaxSize
            /\ lc_sink = <<>>
       ELSE /\ lc_size = 0
            /\ lc_sink \in Sinks(MaxSinkLen)
    /\ lc_n = 0
    /\ lc_result = [num |-> 0, seq |-> <<>>]
    /\ lc_ret = <<>>
    /\ lc_exc = ""
    /\ lc_pc = "idle"
    /\ WideIdle
    /\ HandlerIdle

\* longest_collatz: result = Result(0, []), and the for loop is entered
LongestCall ==
    /\ lc_fn = "longest_collatz"
    /\ lc_pc = "idle"
    /\ lc_result' = [num |-> 0, seq |-> <<>>]
    /\ lc_n' = 1
    /\ lc_pc' = "loop"
    /\ UNCHANGED <<lc_fn, lc_size, lc_sink, lc_ret, lc_exc, poolVars,
                   seqOwnVars, wideVars, handlerVars>>

\* for n in range(1, size+1): the loop body; return result
LongestLoop ==
    /\ lc_fn = "longest_collatz"
    /\ lc_pc = "loop"
    /\ IF lc_n <= lc_size
       THEN /\ lc_result' = longest_collatz_step(lc_result, lc_n)
            /\ lc_n' = lc_n + 1
            /\ UNCHANGED lc_pc
       ELSE /\ lc_pc' = "returned"
            /\ UNCHANGED <<lc_result, lc_n>>
    /\ UNCHANGED <<lc_fn, lc_size, lc_sink, lc_ret, lc_exc, poolVars,
                   seqOwnVars, wideVars, handlerVars>>

\* longest_result = max(results, key=lambda x: x.sequence_length)
\* return longest_result.number, longest_result.sequence
SinkMax ==
    /\ lc_fn = "max"
    /\ lc_pc = "idle"
    /\ lc_ret' = reduce(lc_sink).ret
    /\ lc_exc' = reduce(lc_sink).exc
    /\ lc_pc' = IF reduce(lc_sink).exc # "" THEN "raised" ELSE "returned"
    /\ UNCHANGED <<lc_fn, lc_size, lc_n, lc_result, lc_sink, poolVars,
                   seqOwnVars, wideVars, handlerVars>>

NextArgmax == LongestCall \/ LongestLoop \/ SinkMax

SpecArgmax == InitArgmax /\ [][NextArgmax]_vars

(* --------------- both backends on numbers of any magnitude ------------ *)

\* A Python int has no width.  Here it is the sequence of its bits, the
\* lowest first and the highest a 1; 0 is the empty sequence.
RECURSIVE bits_of(_)
bits_of(k) == IF k = 0 THEN <<>> ELSE <<k % 2>> \o bits_of(k \div 2)

\* the high zeros dropped
RECURSIVE bits_norm(_)
bits_norm(b) ==
    IF b = <<>> THEN <<>>
    ELSE IF Last(b) = 0 THEN bits_norm(SubSeq(b, 1, Len(b) - 1)) ELSE b

\* a + b + c, c a carry bit
RECURSIVE bits_add(_, _, _)
bits_add(a, b, c) ==
    IF a = <<>> /\ b = <<>> THEN (IF c = 0 THEN <<>> ELSE <<1>>)
    ELSE LET x == IF a = <<>> THEN 0 ELSE Head(a)
             y == IF b = <<>> THEN 0 ELSE Head(b)
             t == x + y + c
         IN  <<t % 2>> \o bits_add(IF a = <<>> THEN <<>> ELSE Tail(a),
                                   IF b = <<>> THEN <<>> ELSE Tail(b),
                                   t \div 2)

\* b * 2^s
bits_shift(b, s) == IF b = <<>> THEN <<>> ELSE [i \in 1 .. s |-> 0] \o b

\* float(x): the nearest double, a tie going to the even mantissa
float_of(b) ==
    IF Len(b) <= DoubleMantissa THEN b
    ELSE LET s == Len(b) - DoubleMantissa
             mantissa == SubSeq(b, s + 1, Len(b))
             above == b[s] = 1 /\ \E i \in 1 .. s - 1 : b[i] = 1
             tie == b[s] = 1 /\ \A i \in 1 .. s - 1 : b[i] = 0
         IN  bits_shift(IF above \/ (tie /\ mantissa[1] = 1)
                        THEN bits_add(mantissa, <<1>>, 0) ELSE mantissa, s)

\* int(x / 2): x becomes a float, is halved exactly, and is truncated
wide_int_true_div2(b) == IF b = <<>> THEN <<>> ELSE Tail(float_of(b))

\* one iteration of the while loop of seq (collatz.py, async_collatz.py)
wide_seq_step(rs) ==
    IF Last(rs) = <<>> \/ Head(Last(rs)) = 0
    THEN Append(rs, wide_int_true_div2(Last(rs)))
    ELSE Append(rs, bits_add(<<0>> \o Last(rs), Last(rs), 1))

\* one iteration of the while loop of calculate_collatz: the new current
wide_calculate_collatz_step(current) ==
    IF Head(current) = 0 THEN Tail(current)
    ELSE bits_add(<<0>> \o current, current, 1)

\* the bits of b from bit i up, taken as a number, modulo ten
RECURSIVE bits_mod10(_, _)
bits_mod10(b, i) ==
    IF i > Len(b) THEN 0 ELSE (2 * bits_mod10(b, i + 1) + b[i]) % 10

\* b divided by ten: long division, one bit of the quotient for each of b
bits_div10(b) ==
    bits_norm([i \in 1 .. Len(b) |->
                  IF 2 * bits_mod10(b, i + 1) + b[i] >= 10 THEN 1 ELSE 0])

\* str(x) of a positive int, as params={"number": number} and jsonify write
\* it: its decimal digits, the highest first
RECURSIVE str(_)
str(b) ==
    IF b = <<>> THEN <<>> ELSE Append(str(bits_div10(b)), bits_mod10(b, 1))

\* int(text) of decimal digits, as the handler's int(number_str) and
\* response.json() read them
RECURSIVE int_of_digits(_, _)
int_of_digits(text, acc) ==
    IF text = <<>> THEN acc
    ELSE int_of_digits(Tail(text),
                       bits_add(bits_add(bits_shift(acc, 3),
                                         bits_shift(acc, 1), 0),
                                bits_of(Head(text)), 0))

\* jsonify({"number": number, "sequence": sequence}): the text of each
\* element of the list
jsonify(sequence) == [i \in 1 .. Len(sequence) |-> str(sequence[i])]

\* await response.json(); data["sequence"]
json_sequence(body) == [i \in 1 .. Len(body) |-> int_of_digits(body[i], <<>>)]

\* the recurrence is not stepped on its own
RecurrenceIdle ==
    /\ seq_fn = "seq"
    /\ seq_n = 1
    /\ seq_results = <<>>
    /\ seq_current = 0
    /\ seq_pc = "idle"

\* the numbers given to both backends: small ones, and ones next to
\* 2^WideExponent
WideInputs ==
    { bits_of(k) : k \in 1 .. MaxSeqInput } \cup
    { bits_add(bits_shift(<<1>>, WideExponent), bits_of(d), 0) :
        d \in 0 .. WideSpread }

\* n is about to go to seq(n) and to get_collatz_sequence(n, session)
InitWide ==
    /\ PoolIdle
    /\ RecurrenceIdle
    /\ ArgmaxIdle
    /\ HandlerIdle
    /\ wide_n \in WideInputs
    /\ wide_results = <<>>
    /\ wide_sequence = <<>>
    /\ wide_current = <<>>
    /\ wide_artifact = <<>>
    /\ wide_pc = "idle"

\* seq: results = [n]
WideLocalCall ==
    /\ wide_pc = "idle"
    /\ wide_results' = <<wide_n>>
    /\ wide_pc' = "local"
    /\ UNCHANGED <<wide_n, wide_sequence, wide_current, wide_artifact,
                   poolVars, seqOwnVars, argmaxVars, handlerVars>>

\* seq: while results[-1] != 1: the loop body; return results
WideLocalLoop ==
    /\ wide_pc = "local"
    /\ IF Last(wide_results) # <<1>>
       THEN /\ wide_results' = wide_seq_step(wide_results)
            /\ UNCHANGED wide_pc
       ELSE /\ wide_pc' = "request"
            /\ UNCHANGED wide_results
    /\ UNCHANGED <<wide_n, wide_sequence, wide_current, wide_artifact,
                   poolVars, seqOwnVars, argmaxVars, handlerVars>>

\* get_collatz_sequence: session.get(..., params={"number": number});
\* collatz_handler: number = int(number_str), which is positive;
\* calculate_collatz: sequence = [n]; current = n
WideRequest ==
    /\ wide_pc = "request"
    /\ wide_sequence' = <<int_of_digits(str(wide_n), <<>>)>>
    /\ wide_current' = int_of_digits(str(wide_n), <<>>)
    /\ wide_pc' = "remote"
    /\ UNCHANGED <<wide_n, wide_results, wide_artifact,
                   poolVars, seqOwnVars, argmaxVars, handlerVars>>

\* calculate_collatz: while current != 1: the loop body; return sequence
WideRemoteLoop ==
    /\ wide_pc = "remote"
    /\ IF wide_current # <<1>>
       THEN /\ wide_current' = wide_calculate_collatz_step(wide_current)
            /\ wide_sequence' =
                  Append(wide_sequence,
                         wide_calculate_collatz_step(wide_current))
            /\ UNCHANGED wide_pc
       ELSE /\ wide_pc' = "respond"
            /\ UNCHANGED <<wide_current, wide_sequence>>
    /\ UNCHANGED <<wide_n, wide_results, wide_artifact,
                   poolVars, seqOwnVars, argmaxVars, handlerVars>>

\* collatz_handler: return jsonify({"number": number, "sequence": sequence})
\* get_collatz_sequence: data = await response.json(); data["sequence"]
WideRespond ==
    /\ wide_pc = "respond"
    /\ wide_artifact' = json_sequence(jsonify(wide_sequence))
    /\ wide_pc' = "done"
    /\ UNCHANGED <<wide_n, wide_results, wide_sequence, wide_current,
                   poolVars, seqOwnVars, argmaxVars, handlerVars>>

NextWide ==
    \/ WideLocalCall
    \/ WideLocalLoop
    \/ WideRequest
    \/ WideRemoteLoop
    \/ WideRespond

SpecWide == InitWide /\ [][NextWide]_vars

(* ------------------------- GET /collatz ------------------------------- *)

\* the characters a query parameter is made of here: digits, signs, a
\* blank, an underscore and a letter
Digits == {"0", "1", "2", "9"}
ParamChars == Digits \cup {"-", "+", " ", "_", "a"}
DigitValue ==
    [c \in Digits |->
        IF c = "0" THEN 0 ELSE IF c = "1" THEN 1 ELSE IF c = "2" THEN 2 ELSE 9]

\* the values request.args.get("number") can have: None when the parameter
\* is absent, else its text
ParamValues ==
    {[present |-> FALSE, text |-> <<>>]} \cup
    UNION { { [present |-> TRUE, text |-> t] : t \in [1 .. m -> ParamChars] } :
            m \in 0 .. MaxParamLen }

\* the parameters at the limit of the conversion between int and str: the
\* greatest number int() reads, int_max_str_digits nines, and the text one
\* nine longer
WideParams ==
    { [present |-> TRUE, text |-> [i \in 1 .. k |-> "9"]] :
        k \in {int_max_str_digits, int_max_str_digits + 1} }

\* text.strip(): the blanks at both ends dropped
RECURSIVE strip(_)
strip(text) ==
    IF text = <<>> THEN <<>>
    ELSE IF Head(text) = " " THEN strip(Tail(text))
    ELSE IF Last(text) = " " THEN strip(SubSeq(text, 1, Len(text) - 1))
    ELSE text

\* the value of a run of digits with underscores between them
RECURSIVE digits_value(_, _)
digits_value(body, acc) ==
    IF body = <<>> THEN acc
    ELSE IF Head(body) = "_" THEN digits_value(Tail(body), acc)
    ELSE digits_value(Tail(body), 10 * acc + DigitValue[Head(body)])

\* the digits of a body, its underscores dropped
IsDigit(c) == c \in Digits
digits_of(body) == SelectSeq(body, IsDigit)

\* int(text): blanks around are ignored, a sign may lead, then come digits,
\* single underscores allowed between two digits; anything else, and more
\* than int_max_str_digits digits, raises ValueError.  A number of more
\* digits than a parameter of MaxParamLen characters has is wide: it is
\* kept as its digits, the field value is not used, and positive tells its
\* sign
int_of_text(text) ==
    LET t == strip(text)
        signed == t # <<>> /\ Head(t) \in {"+", "-"}
        body == IF signed THEN Tail(t) ELSE t
        valid == /\ body # <<>>
                 /\ \A i \in 1 .. Len(body) : body[i] \in Digits \cup {"_"}
                 /\ Head(body) # "_"
                 /\ Last(body) # "_"
                 /\ \A i \in 1 .. Len(body) - 1 :
                       ~(body[i] = "_" /\ body[i + 1] = "_")
                 /\ Len(digits_of(body)) <= int_max_str_digits
        minus == signed /\ Head(t) = "-"
    IN  IF ~valid
        THEN [raised |-> TRUE, value |-> 0, wide |-> <<>>, positive |-> FALSE]
        ELSE IF Len(digits_of(body)) > MaxParamLen
        THEN [raised |-> FALSE, value |-> 0, wide |-> digits_of(body),
              positive |-> ~minus /\ \E i \in 1 .. Len(digits_of(body)) :
                                        digits_of(body)[i] # "0"]
        ELSE [raised |-> FALSE,
              value |-> IF minus THEN -digits_value(body, 0)
                        ELSE digits_value(body, 0),
              wide |-> <<>>,
              positive |-> ~minus /\ digits_value(body, 0) > 0]

\* the digits d, highest first, without their leading zeros
significant(d) ==
    IF \A i \in 1 .. Len(d) : d[i] = "0" THEN <<>>
    ELSE SubSeq(d, CHOOSE k \in 1 .. Len(d) :
                      /\ d[k] # "0"
                      /\ \A i \in 1 .. k - 1 : d[i] = "0",
                Len(d))

\* 3n + 1 has one digit more than the number n of the digits d: n is at
\* least 33...3, so 3n + 1 is at least 10^Len(d)
grows(d) ==
    \/ \A i \in 1 .. Len(d) : d[i] = "3"
    \/ \E k \in 1 .. Len(d) :
          /\ d[k] \notin {"0", "1", "2", "3"}
          /\ \A i \in 1 .. k - 1 : d[i] = "3"

\* the number of digits of sequence[1], the element calculate_collatz
\* appends first for the number n > 1 of the digits d: n // 2 for an even
\* n, one digit shorter when n is below 2 * 10^(Len(d) - 1); 3n + 1 for an
\* odd n
second_element_digits(d) ==
    LET n == significant(d)
    IN  IF Last(n) \in {"0", "2", "4", "6", "8"}
        THEN Len(n) - (IF Head(n) = "1" THEN 1 ELSE 0)
        ELSE Len(n) + (IF grows(n) THEN 1 ELSE 0)

\* collatz_handler on the value args of request.args.get("number"), up to
\* its call of calculate_collatz: the error it answers, or the number it
\* goes on with
collatz_handler(args) ==
    IF ~args.present \/ args.text = <<>>
    THEN [status |-> 400, error |-> "Missing 'number' parameter", number |-> 0]
    ELSE IF int_of_text(args.text).raised
    THEN [status |-> 400, error |-> "Invalid number format", number |-> 0]
    ELSE IF ~int_of_text(args.text).positive
    THEN [status |-> 400, error |-> "Number must be positive", number |-> 0]
    ELSE [status |-> 200, error |-> "",
          number |-> int_of_text(args.text).value]

\* a request GET /collatz is about to be handled
InitHandler ==
    /\ PoolIdle
    /\ RecurrenceIdle
    /\ ArgmaxIdle
    /\ WideIdle
    /\ h_args \in ParamValues \cup WideParams
    /\ h_resp = [status |-> 0, error |-> "", number |-> 0, sequence |-> <<>>]
    /\ h_current = 0
    /\ h_calls = <<>>
    /\ h_pc = "idle"

\* collatz_handler runs up to its answer 400, or up to the loop of
\* calculate_collatz(number): if n <= 0: return []; sequence = [n];
\* current = n.  A call with a wide number is recorded with its digits
Handle ==
    /\ h_pc = "idle"
    /\ LET h == collatz_handler(h_args)
       IN  IF h.status = 400
           THEN /\ h_resp' = [status |-> 400, error |-> h.error,
                              number |-> 0, sequence |-> <<>>]
                /\ h_pc' = "done"
                /\ UNCHANGED <<h_calls, h_current>>
           ELSE IF int_of_text(h_args.text).wide # <<>>
           THEN /\ h_calls' = Append(h_calls, int_of_text(h_args.text).wide)
                /\ h_pc' = "calculate_wide"
                /\ UNCHANGED <<h_resp, h_current>>
           ELSE /\ h_calls' = Append(h_calls, h.number)
                /\ IF h.number <= 0
                   THEN /\ h_resp' = [status |-> 200, error |-> "",
                                      number |-> h.number,
                                      sequence |-> <<>>]
                        /\ h_pc' = "done"
                        /\ UNCHANGED h_current
                   ELSE /\ h_resp' = [status |-> 0, error |-> "",
                                      number |-> h.number,
                                      sequence |-> <<h.number>>]
                        /\ h_current' = h.number
                        /\ h_pc' = "calculate"
    /\ UNCHANGED <<h_args, poolVars, seqOwnVars, argmaxVars, wideVars>>

\* calculate_collatz: while current != 1: the loop body; return sequence
\* collatz_handler: return jsonify({"number": number, "sequence": sequence})
HandleLoop ==
    /\ h_pc = "calculate"
    /\ IF h_current # 1
       THEN /\ h_current' = calculate_collatz_step(h_current)
            /\ h_resp' = [h_resp EXCEPT !.sequence =
                             Append(@, calculate_collatz_step(h_current))]
            /\ UNCHANGED h_pc
       ELSE /\ h_resp' = [h_resp EXCEPT !.status = 200]
            /\ h_pc' = "done"
            /\ UNCHANGED h_current
    /\ UNCHANGED <<h_args, h_calls, poolVars, seqOwnVars, argmaxVars,
                   wideVars>>

\* the handler faults on a wide number whose list holds, as its second
\* element already, a number of more than int_max_str_digits digits:
\* calculate_collatz returns the list, return jsonify(...) raises ValueError
\* on that element, and the fault is answered 500: by server_error when the
\* application is served without debug, by the page of the debugger when
\* it is run as a script (app.run(debug=True)), which server_error does not
\* get to replace.  The lists of the other wide numbers are not computed
\* here; WideParams holds none of them
ServerError ==
    /\ h_pc = "calculate_wide"
    /\ second_element_digits(int_of_text(h_args.text).wide)
          > int_max_str_digits
    /\ \E debug \in BOOLEAN :
          h_resp' = [status |-> 500,
                     error |-> IF debug THEN "debugger"
                               ELSE "Internal server error",
                     number |-> 0, sequence |-> <<>>]
    /\ h_pc' = "done"
    /\ UNCHANGED <<h_args, h_calls, h_current, poolVars, seqOwnVars,
                   argmaxVars, wideVars>>

NextHandler == Handle \/ HandleLoop \/ ServerError

SpecHandler == InitHandler /\ [][NextHandler]_vars

(* ------------------------- notions of the claims ---------------------- *)

Pool == variant \in {"plain", "stats"}

\* queue.join() has returned
Drained == main_pc \in {"cancel", "gather", "reduce", "returned", "raised",
                        "exit"}

\* process_numbers has ended
Ended == main_pc \in {"returned", "raised", "exit"}

\* a worker holds entry e: dequeued, its handling not finished
Holds(w, e) == pc[w] = "call" /\ number[w] = e

InResults(n) == \E i \in 1 .. Len(results) : results[i].number = n

CountIn(q, e) == Cardinality({i \in 1 .. Len(q) : q[i] = e})

(* ------------------------------- claims ------------------------------- *)

\* C1: failure isolation in the workers of the two remote pools.  No
\* exception leaves a worker; for every work item, task_done has been called
\* not at all while the item is queued or held, and exactly once from the
\* moment its handling ended, whatever the service answered; and a worker
\* that handled an item is back in its loop: the only way out of the loop is
\* a dequeued poison pill.
C1_FailureIsolation ==
    Pool =>
        /\ \A w \in Workers : pc[w] # "crashed"
        /\ \A n \in Items :
              IF claim_count[n] = 0 \/ \E w \in Workers : Holds(w, n)
              THEN done_calls[n] = 0
              ELSE done_calls[n] = 1
        /\ \A w \in Workers :
              /\ pc[w] = "done" => number[w] = None
              /\ (number[w] # None /\ ~Holds(w, number[w])) => pc[w] = "get"

\* a single worker got a failing answer for item 1 and now holds item 2
C1_Witness ==
    /\ Pool
    /\ num_workers = 1
    /\ max_number >= 2
    /\ backend[1] # "ok"
    /\ reported[1] = 1
    /\ done_calls[1] = 1
    /\ Holds(0, 2)

\* C3: accounting after drain in the statistics pool.  Once queue.join()
\* has returned, the numbers_processed of all WorkerStats plus the number of
\* items that went through the except branch add up to max_number.
C3_Accounting ==
    (variant = "stats" /\ Drained) =>
        SumOver([w \in DOMAIN worker_stats |->
                    worker_stats[w].numbers_processed], DOMAIN worker_stats)
          + SumOver(reported, Items) = max_number

\* C4: every work item (every number of a remote pool, every batch of the
\* batch pool) is dequeued at most once, is held by at most one worker, is
\* not dequeued while it is still in the queue, and has been dequeued
\* exactly once when queue.join() has returned.
C4_ExactlyOnce ==
    \A e \in WorkEntries :
        /\ claim_count[e] <= 1
        /\ Cardinality({w \in Workers : Holds(w, e)}) <= 1
        /\ CountIn(queue, e) + claim_count[e] <= 1
        /\ Drained => claim_count[e] = 1

\* two workers of a remote pool hold an item each at the same time
C4_Witness ==
    /\ Pool
    /\ num_workers >= 2
    /\ pc[0] = "call"
    /\ pc[1] = "call"

\* C5: the poison pills of process_numbers.  Exactly num_workers pills are
\* put; no worker dequeues two; a worker has left its loop if and only if it
\* has dequeued a pill; and when queue.join() has returned every worker has
\* dequeued its pill.
C5_PoisonPills ==
    Pool =>
        /\ pills_put <= num_workers
        /\ main_pc \notin {"fill", "pills"} => pills_put = num_workers
        /\ CountIn(queue, None) + SumOver(pills_taken, Workers) = pills_put
        /\ \A w \in Workers :
              /\ pills_taken[w] <= 1
              /\ pc[w] = "done" <=> pills_taken[w] = 1
              /\ Drained => pills_taken[w] = 1

\* one worker has left on its pill while the other, after a failed item,
\* is still in the loop
C5_Witness ==
    /\ Pool
    /\ num_workers = 2
    /\ pc[0] = "done"
    /\ pc[1] = "get"
    /\ \E n \in Items : reported[n] = 1

\* C6: drain ordering.  When queue.join() has returned, every number and
\* every pill has been marked done, every number has a result in the sink
\* or a printed failure, and every worker has dequeued its pill; and the
\* reduction is reached only with join returned and every worker task ended.
C6_DrainOrdering ==
    Pool =>
        /\ Drained =>
              /\ unfinished_tasks = 0
              /\ queue = <<>>
              /\ \A n \in Items :
                    /\ done_calls[n] = 1
                    /\ InResults(n) \/ reported[n] >= 1
              /\ done_calls[None] = num_workers
              /\ \A w \in Workers : pills_taken[w] = 1
        /\ main_pc \in {"reduce", "returned", "raised", "exit"} =>
              /\ Drained
              /\ \A w \in Workers : pc[w] = "done"

\* join has just returned on a run with two workers, a failed and a
\* successful item
C6_Witness ==
    /\ Pool
    /\ main_pc = "gather"
    /\ num_workers = 2
    /\ \E n \in Items : reported[n] = 1
    /\ \E n \in Items : InResults(n)

\* no request of the run is answered with a sequence
NoSuccess == \A n \in Items : backend[n] # "ok"

\* C9: with no successful result (max_number = 0, or every item failed) the
\* pool still drains, every worker ends, process_numbers ends by raising the
\* empty-sequence error of max(), which main reports; no argmax is returned
\* and the run cannot stop anywhere before main's report.
C9_EmptyResult ==
    (Pool /\ NoSuccess) =>
        /\ results = <<>>
        /\ ret = <<>>
        /\ Ended =>
              /\ exc = "ValueError"
              /\ unfinished_tasks = 0
              /\ \A w \in Workers : pc[w] = "done"
        /\ main_pc = "exit" => report = "error"
        /\ main_pc # "exit" => ENABLED Next

\* main has reported the error of a run in which two workers saw every one of
\* several items fail
C9_Witness ==
    /\ Pool
    /\ NoSuccess
    /\ max_number >= 2
    /\ num_workers = 2
    /\ main_pc = "exit"
    /\ report = "error"

\* C2: liveness of process_numbers.  Under fair scheduling, whatever the
\* service answers, queue.join() returns, every worker ends and
\* process_numbers ends (and main reports).
C2_Liveness ==
    Pool => <>(/\ main_pc = "exit"
               /\ unfinished_tasks = 0
               /\ \A w \in Workers : pc[w] = "done")

\* a run of two workers in which an item failed has ended
C2_Witness ==
    /\ Pool
    /\ num_workers = 2
    /\ main_pc = "exit"
    /\ \E n \in Items : reported[n] = 1
    /\ \A w \in Workers : pc[w] = "done"


\* C7: independence of the number of workers.  Two runs of process_numbers
\* on the same range against the same deterministic service, with any two
\* worker counts and any interleavings, end alike: same returned number and
\* sequence (or same error), same number of results, same number of
\* failures.
C7_SameForEveryWorkerCount ==
    (run = 2 /\ main_pc \in {"returned", "raised"}) =>
        /\ ret = first_run.ret
        /\ exc = first_run.exc
        /\ Len(results) = first_run.processed
        /\ SumOver(reported, Items) = first_run.failed

\* C8: idempotence.  Two runs of process_numbers with the same max_number,
\* the same num_workers and the same deterministic service return the same
\* number and the same sequence.
C8_SameOnRerun ==
    (run = 2 /\ main_pc \in {"returned", "raised"}
       /\ num_workers = first_run.num_workers) =>
        ret = first_run.ret

\* the rule of the recurrence between neighbours of a list
FollowsRule(r) ==
    \A i \in 2 .. Len(r) :
        r[i] = IF r[i - 1] % 2 = 0 THEN r[i - 1] \div 2 ELSE 3 * r[i - 1] + 1

\* C10: the local computation.  For every n >= 1 of the range, seq(n) and
\* calculate_collatz(n) return, and the list returned starts with n, ends
\* with 1, holds 1 nowhere else, and each element after the first is half
\* the one before it when that is even and three times it plus one when it
\* is odd; seq(5) is [5, 16, 8, 4, 2, 1].
C10_LocalCompute ==
    /\ [](seq_pc = "returned" =>
            /\ Len(seq_results) >= 1
            /\ seq_results[1] = seq_n
            /\ Last(seq_results) = 1
            /\ \A i \in 1 .. Len(seq_results) - 1 : seq_results[i] # 1
            /\ FollowsRule(seq_results)
            /\ seq_n = 5 => seq_results = <<5, 16, 8, 4, 2, 1>>)
    /\ <>(seq_pc = "returned")

\* seq(27) has returned its 112 elements, 9232 among them
C10_Witness ==
    /\ seq_pc = "returned"
    /\ seq_fn = "seq"
    /\ seq_n = 27
    /\ Len(seq_results) = 112
    /\ \E i \in 1 .. Len(seq_results) : seq_results[i] = 9232

\* the first index of f at which f is greatest
FirstGreatest(f) ==
    CHOOSE i \in DOMAIN f :
        /\ \A j \in DOMAIN f : f[j] <= f[i]
        /\ \A j \in DOMAIN f : j < i => f[j] < f[i]

\* C11: the argmax reduction.  longest_collatz(size), size >= 1, returns the
\* first n of 1..size whose sequence is the longest, with seq(n); the max
\* over a non-empty sink returns the number and the sequence of the first
\* result in append order whose sequence_length is the greatest; and
\* longest_collatz(20) returns 18 with its 21 elements.
C11_Argmax ==
    /\ (lc_fn = "longest_collatz" /\ lc_pc = "returned" /\ lc_size >= 1) =>
          LET first == FirstGreatest([n \in 1 .. lc_size |-> Len(seq(n))])
          IN  /\ lc_result = [num |-> first, seq |-> seq(first)]
              /\ lc_size = 20 =>
                    /\ lc_result.num = 18
                    /\ lc_result.seq =
                          <<18, 9, 28, 14, 7, 22, 11, 34, 17, 52, 26, 13, 40,
                            20, 10, 5, 16, 8, 4, 2, 1>>
    /\ (lc_fn = "max" /\ lc_pc # "idle" /\ lc_sink # <<>>) =>
          LET first == FirstGreatest([i \in 1 .. Len(lc_sink) |->
                                         lc_sink[i].sequence_length])
          IN  /\ lc_pc = "returned"
              /\ lc_ret = <<lc_sink[first].number, lc_sink[first].sequence>>

\* longest_collatz(20) has returned 18, though 19 has a sequence as long
C11_Witness ==
    /\ lc_fn = "longest_collatz"
    /\ lc_pc = "returned"
    /\ lc_size = 20
    /\ lc_result.num = 18
    /\ Len(seq(19)) = Len(lc_result.seq)

\* a list that holds some value twice
Repeats(r) == \E i, j \in 1 .. Len(r) : i < j /\ r[i] = r[j]

\* C12: invalid input to the local computation.  Called with n <= 0, seq
\* and calculate_collatz return no list, and their loop does not come back
\* to a value it has had before, from which it would go round for ever.
C12_InvalidInput ==
    seq_n <= 0 =>
        /\ seq_pc # "returned"
        /\ ~Repeats(seq_results)

\* C13: backend equivalence.  For every positive n, the list
\* get_collatz_sequence reads from the service's answer for n is, element
\* for element, the list seq(n) returns.
C13_BackendEquivalence ==
    wide_pc = "done" => wide_artifact = wide_results

\* C14: request validation of GET /collatz.  The answer is 200 with the
\* number and its sequence if and only if the parameter is given, int()
\* reads it and the number is positive; every other answer is 400 with one
\* of the three errors, each reported only when the checks before it passed:
\* the parameter is missing (not given, or given without a value), else its
\* format is invalid, else the number is not positive.  calculate_collatz
\* is called only for the 200 answer, with a positive number.
C14_RequestValidation ==
    h_pc = "done" =>
        LET parsed == int_of_text(h_args.text)
            accepted == /\ h_args.present
                        /\ ~parsed.raised
                        /\ parsed.positive
        IN  /\ h_resp.status = 200 <=> accepted
            /\ h_resp.status = 200 =>
                  /\ h_resp.error = ""
                  /\ h_resp.number = parsed.value
                  /\ h_resp.sequence # <<>>
                  /\ Head(h_resp.sequence) = parsed.value
                  /\ Last(h_resp.sequence) = 1
                  /\ FollowsRule(h_resp.sequence)
                  /\ h_calls = <<parsed.value>>
            /\ h_resp.status # 200 =>
                  /\ h_resp.status = 400
                  /\ h_calls = <<>>
                  /\ h_resp.error \in {"Missing 'number' parameter",
                                       "Invalid number format",
                                       "Number must be positive"}
                  /\ ~h_args.present =>
                        h_resp.error = "Missing 'number' parameter"
                  /\ h_resp.error = "Missing 'number' parameter" =>
                        (~h_args.present \/ h_args.text = <<>>)
                  /\ h_resp.error = "Invalid number format" =>
                        (h_args.present /\ parsed.raised)
                  /\ h_resp.error = "Number must be positive" =>
                        (h_args.present /\ ~parsed.raised
                           /\ ~parsed.positive)
            /\ \A i \in 1 .. Len(h_calls) : h_calls[i] > 0

\* C15: drain accounting in every pool variant, the batch pool included.  No
\* exception leaves a worker, and every entry a worker dequeued and no longer
\* works on has been marked done once, so that queue.join() can return.
C15_DrainAccounting ==
    /\ \A w \in Workers : pc[w] # "crashed"
    /\ \A e \in WorkEntries :
          (claim_count[e] = 1 /\ \A w \in Workers : ~Holds(w, e)) =>
              done_calls[e] = 1

\* C16: marker ordering in process_numbers.  The queue holds the numbers in
\* ascending order and every pill behind every number; and once a worker has
\* dequeued a pill, every number has been dequeued and none is left in the
\* queue.
C16_MarkerOrdering ==
    Pool =>
        /\ \A i, j \in 1 .. Len(queue) :
              i < j =>
                 /\ queue[i] = None => queue[j] = None
                 /\ (queue[i] # None /\ queue[j] # None) =>
                       queue[i] < queue[j]
        /\ (\E w \in Workers : pills_taken[w] >= 1) =>
              /\ \A i \in 1 .. Len(queue) : queue[i] = None
              /\ \A n \in Items : claim_count[n] = 1

\* a worker has ended on its pill while the other still awaits the answer
\* for the last number
C16_Witness ==
    /\ Pool
    /\ num_workers = 2
    /\ max_number >= 2
    /\ pills_taken[0] = 1
    /\ pc[0] = "done"
    /\ Holds(1, max_number)
    /\ queue = <<None>>

\* C17: frame on failure in the statistics worker.  A step in which a worker
\* handles a failed number (its error line is printed) appends nothing to
\* results and leaves the worker's WorkerStats as it was.
C17_FrameOnFailure ==
    [][\A w \in Workers :
          (/\ variant = "stats"
           /\ pc[w] = "call"
           /\ reported'[number[w]] = reported[number[w]] + 1) =>
              /\ results' = results
              /\ worker_stats'[w] = worker_stats[w]]_vars

\* the places in the sink of the results worker w appended
ResultsOf(w) == {i \in 1 .. Len(results) : results[i].worker_id = w}

\* C18: the statistics agree with the result sink.  Once queue.join() has
\* returned in the statistics pool, for every worker its numbers_processed is
\* the number of its results, its total_sequence_length the sum of their
\* lengths, its longest_sequence their greatest length (0 without results),
\* its number_with_longest the number of its first result of that length;
\* and the numbers_processed of all workers add up to len(results).
C18_StatsAgreeWithSink ==
    (variant = "stats" /\ Drained) =>
        /\ DOMAIN worker_stats = Workers
        /\ \A w \in Workers :
              LET mine == ResultsOf(w)
                  lens == [i \in mine |-> results[i].sequence_length]
              IN  /\ worker_stats[w].numbers_processed = Cardinality(mine)
                  /\ worker_stats[w].total_sequence_length =
                        SumOver(lens, mine)
                  /\ IF mine = {}
                     THEN /\ worker_stats[w].longest_sequence = 0
                          /\ worker_stats[w].number_with_longest = 0
                     ELSE /\ worker_stats[w].longest_sequence =
                                lens[FirstGreatest(lens)]
                          /\ worker_stats[w].number_with_longest =
                                results[FirstGreatest(lens)].number
        /\ SumOver([w \in Workers |-> worker_stats[w].numbers_processed],
                   Workers) = Len(results)

\* worker w has been created and has not ended
Running(w) == pc[w] \in {"start", "get", "call"}

\* C19: ownership of the statistics.  In the statistics pool a record of
\* worker_stats is created or changed only in a step of the worker it
\* belongs to, while that worker runs; when process_numbers has returned,
\* every worker has ended and there is one record for each of
\* 0..num_workers-1; and from then on, print_worker_stats included, no
\* record changes.
C19_StatsOwnership ==
    /\ [](variant = "stats" /\ main_pc \in {"returned", "exit"}
            /\ exc = "" =>
              /\ \A w \in Workers : pc[w] = "done"
              /\ DOMAIN worker_stats = Workers)
    /\ [][variant = "stats" =>
            /\ \A w \in DOMAIN worker_stats' :
                  (w \notin DOMAIN worker_stats
                     \/ worker_stats'[w] # worker_stats[w]) =>
                        /\ w \in Workers
                        /\ Running(w)
                        /\ pc'[w] # pc[w]
                        /\ \A v \in Workers \ {w} : pc'[v] = pc[v]
            /\ DOMAIN worker_stats \subseteq DOMAIN worker_stats'
            /\ main_pc \in {"returned", "exit"} =>
                  worker_stats' = worker_stats]_vars

\* main has printed the statistics of two workers that both have results
C19_Witness ==
    /\ variant = "stats"
    /\ num_workers = 2
    /\ main_pc = "exit"
    /\ report = "results"
    /\ \A w \in Workers : worker_stats[w].numbers_processed >= 1

\* C20: cancellation in async_collatz.main.  The worker tasks are cancelled
\* only after queue.join() has returned, when every batch has been dequeued
\* and marked done; when main cancels them every worker is suspended in
\* queue.get() and holds no batch; only cancelled workers end that way; and
\* main returns only when every worker task has ended.
C20_BatchCancellation ==
    variant = "batch" =>
        /\ (main_pc = "cancel" \/ \E w \in Workers : cancel_requested[w]) =>
              /\ unfinished_tasks = 0
              /\ queue = <<>>
              /\ \A e \in Batches : claim_count[e] = 1 /\ done_calls[e] = 1
              /\ \A w \in Workers : pc[w] # "call"
        /\ main_pc = "cancel" => \A w \in Workers : pc[w] = "get"
        /\ \A w \in Workers : pc[w] = "cancelled" => cancel_requested[w]
        /\ main_pc = "exit" => \A w \in Workers : pc[w] = "cancelled"

\* main has returned after the batches were worked by more than one worker
C20_Witness ==
    /\ variant = "batch"
    /\ main_pc = "exit"
    /\ \A w \in Workers : pc[w] = "cancelled"
    /\ number[0] # <<>>
    /\ number[1] # <<>>
    /\ \A e \in Batches : done_calls[e] = 1

====
